---- MODULE Spec2Model ----
(***************************************************************************)
(* A model of CSV-to-QIF.py: the column map built from the JSON            *)
(* definition, the construction of Bank / Invst / Security records from a  *)
(* CSV row, the rule helpers (caluculate_field, invert_field, the          *)
(* translation loops), the record formatters and the three passes of       *)
(* readCsv over the CSV file.                                              *)
(*                                                                         *)
(* Python strings are sequences of one-character strings, so that          *)
(* startswith, slicing, strip, float() and strptime are computed on the    *)
(* text. Python values are tagged tuples: None, Str(text), PInt(n) and      *)
(* Num(n, d) (a float, kept as the exact fraction n/d).                    *)
(*                                                                         *)
(* Specifications:                                                         *)
(*   Spec           readCsv over a definition file and a CSV file          *)
(*   SpecRecord     one Bank / Invst / Security record built from one row  *)
(*                  and formatted                                          *)
(*   SpecFmt        get_formatted_string on every present/absent pattern   *)
(*   SpecInvert     invert_field applied again and again to one value      *)
(*   SpecColumnMap  ColumnMap built from one JSON document                 *)
(***************************************************************************)
EXTENDS Integers, Sequences, FiniteSets, TLC

(* ------------------------------ bounds --------------------------------- *)
\* longest CSV file (in rows) given to readCsv
MaxRows == 3
\* longest text given to invert_field
MaxStrLen == 3
\* how many times in a row invert_field is applied to one attribute
MaxInverts == 2

(* ------------------------------ values --------------------------------- *)
None == <<"none">>
Str(s) == <<"str", s>>
PInt(n) == <<"int", n>>
\* the outcome of an expression that raises (any exception type)
Raise == <<"raise">>

IsStr(v) == v[1] = "str"
IsInt(v) == v[1] = "int"
IsNum(v) == v[1] = "num"
IsNumeric(v) == IsInt(v) \/ IsNum(v)

Abs(n) == IF n < 0 THEN -n ELSE n

RECURSIVE Gcd(_, _)
Gcd(a, b) == IF b = 0 THEN a ELSE Gcd(b, a % b)

\* the float n/d, in lowest terms with a positive denominator
Num(n, d) ==
    LET s == IF d < 0 THEN -1 ELSE 1
        g == Gcd(Abs(n), Abs(d))
    IN <<"num", (s * n) \div g, (s * d) \div g>>

\* numerator and denominator of a numeric value
NumerOf(v) == v[2]
DenomOf(v) == IF IsInt(v) THEN 1 ELSE v[3]

\* Python's bool(v) for the values of the model
Truthy(v) ==
    CASE v = None -> FALSE
      [] IsStr(v) -> Len(v[2]) > 0
      [] IsNumeric(v) -> NumerOf(v) # 0
      [] OTHER -> TRUE

(* ------------------------------ text ----------------------------------- *)
Digits == {"0", "1", "2", "3", "4", "5", "6", "7", "8", "9"}

DigitVal(c) ==
    CASE c = "0" -> 0 [] c = "1" -> 1 [] c = "2" -> 2 [] c = "3" -> 3
      [] c = "4" -> 4 [] c = "5" -> 5 [] c = "6" -> 6 [] c = "7" -> 7
      [] c = "8" -> 8 [] c = "9" -> 9

DigitChar(n) ==
    CASE n = 0 -> "0" [] n = 1 -> "1" [] n = 2 -> "2" [] n = 3 -> "3"
      [] n = 4 -> "4" [] n = 5 -> "5" [] n = 6 -> "6" [] n = 7 -> "7"
      [] n = 8 -> "8" [] n = 9 -> "9"

IsDigits(s) == Len(s) > 0 /\ \A i \in 1..Len(s) : s[i] \in Digits

RECURSIVE DigitsVal(_)
DigitsVal(s) ==
    IF s = <<>> THEN 0
    ELSE 10 * DigitsVal(SubSeq(s, 1, Len(s) - 1)) + DigitVal(s[Len(s)])

RECURSIVE Pow10(_)
Pow10(k) == IF k = 0 THEN 1 ELSE 10 * Pow10(k - 1)

\* n written with exactly w digits (zero padded), n < 10^w
RECURSIVE PadDigits(_, _)
PadDigits(n, w) ==
    IF w = 0 THEN <<>>
    ELSE Append(PadDigits(n \div 10, w - 1), DigitChar(n % 10))

\* s[k:] of Python
Drop(s, k) == SubSeq(s, k + 1, Len(s))

\* str.strip(chars): drop leading and trailing characters that are in chars
RECURSIVE LStrip(_, _)
LStrip(s, chars) ==
    IF s # <<>> /\ s[1] \in chars THEN LStrip(Tail(s), chars) ELSE s

RECURSIVE RStrip(_, _)
RStrip(s, chars) ==
    IF s # <<>> /\ s[Len(s)] \in chars
    THEN RStrip(SubSeq(s, 1, Len(s) - 1), chars) ELSE s

Range(s) == {s[i] : i \in 1..Len(s)}

Strip(s, symbols) == RStrip(LStrip(s, Range(symbols)), Range(symbols))

\* positions of "." in s
Dots(s) == {i \in 1..Len(s) : s[i] = "."}

\* locale.atof(s) = float(s) in the C locale, on signs, digits and ".":
\* [sign] digits [. [digits]] or [sign] . digits; anything else is a
\* ValueError
Atof(s) ==
    LET signed == s # <<>> /\ s[1] \in {"-", "+"}
        sign == IF signed /\ s[1] = "-" THEN -1 ELSE 1
        body == IF signed THEN Tail(s) ELSE s
        dots == Dots(body)
        dot == IF dots = {} THEN Len(body) + 1 ELSE CHOOSE i \in dots : TRUE
        ip == SubSeq(body, 1, dot - 1)
        fp == Drop(body, dot)
        ok == /\ Cardinality(dots) <= 1
              /\ ip = <<>> \/ IsDigits(ip)
              /\ fp = <<>> \/ IsDigits(fp)
              /\ ip # <<>> \/ fp # <<>>
    IN IF ok
       THEN Num(sign * (DigitsVal(ip) * Pow10(Len(fp)) + DigitsVal(fp)),
                Pow10(Len(fp)))
       ELSE Raise

\* int(s) on signs, digits and ".": [sign] digits, else a ValueError
IntOf(s) ==
    LET signed == s # <<>> /\ s[1] \in {"-", "+"}
        sign == IF signed /\ s[1] = "-" THEN -1 ELSE 1
        body == IF signed THEN Tail(s) ELSE s
    IN IF IsDigits(body) THEN PInt(sign * DigitsVal(body)) ELSE Raise

(* ------------------------------ dates ---------------------------------- *)
\* A time format is the sequence of its items: the directives "%d", "%m",
\* "%Y", "%y" and literal characters.
Directives == {"%d", "%m", "%Y", "%y"}

Date(y, m, d) == <<"date", y, m, d>>

\* datetime.min
DateMin == Date(1, 1, 1)

IsLeap(y) == (y % 4 = 0 /\ y % 100 # 0) \/ y % 400 = 0

DaysIn(y, m) ==
    CASE m \in {4, 6, 9, 11} -> 30
      [] m = 2 -> IF IsLeap(y) THEN 29 ELSE 28
      [] OTHER -> 31

\* a > b on datetimes
DateGreater(a, b) ==
    \/ a[2] > b[2]
    \/ a[2] = b[2] /\ a[3] > b[3]
    \/ a[2] = b[2] /\ a[3] = b[3] /\ a[4] > b[4]

\* the two-digit year of "%y" read back: 69..99 are 19xx, 00..68 are 20xx
PivotYear(v) == IF v >= 69 THEN 1900 + v ELSE 2000 + v

\* how many characters a one-or-two digit directive ("%d", "%m") takes from
\* the front of s, 0 when it does not match; hi is the largest value
TakeUpTo2(s, hi) ==
    IF Len(s) >= 2 /\ IsDigits(SubSeq(s, 1, 2))
       /\ DigitsVal(SubSeq(s, 1, 2)) \in 1..hi
    THEN 2
    ELSE IF Len(s) >= 1 /\ s[1] \in Digits /\ DigitVal(s[1]) \in 1..hi
         THEN 1 ELSE 0

\* the matching of text s against the items of fmt from item i on; acc holds
\* the <<year, month, day>> read so far; Raise when the text does not match
RECURSIVE Match(_, _, _, _)
Match(s, fmt, i, acc) ==
    IF i > Len(fmt)
    THEN IF s = <<>> THEN acc ELSE Raise
    ELSE LET it == fmt[i] IN
         CASE it = "%d" ->
                LET k == TakeUpTo2(s, 31) IN
                IF k = 0 THEN Raise
                ELSE Match(Drop(s, k), fmt, i + 1,
                           [acc EXCEPT ![3] = DigitsVal(SubSeq(s, 1, k))])
           [] it = "%m" ->
                LET k == TakeUpTo2(s, 12) IN
                IF k = 0 THEN Raise
                ELSE Match(Drop(s, k), fmt, i + 1,
                           [acc EXCEPT ![2] = DigitsVal(SubSeq(s, 1, k))])
           [] it = "%Y" ->
                IF Len(s) >= 4 /\ IsDigits(SubSeq(s, 1, 4))
                THEN Match(Drop(s, 4), fmt, i + 1,
                           [acc EXCEPT ![1] = DigitsVal(SubSeq(s, 1, 4))])
                ELSE Raise
           [] it = "%y" ->
                IF Len(s) >= 2 /\ IsDigits(SubSeq(s, 1, 2))
                THEN Match(Drop(s, 2), fmt, i + 1,
                           [acc EXCEPT ![1] = PivotYear(DigitsVal(SubSeq(s, 1, 2)))])
                ELSE Raise
           [] OTHER ->
                IF s # <<>> /\ s[1] = it
                THEN Match(Tail(s), fmt, i + 1, acc)
                ELSE Raise

\* datetime.strptime(s, fmt): a datetime, or a ValueError
Strptime(s, fmt) ==
    LET r == Match(s, fmt, 1, <<1900, 1, 1>>) IN
    IF r = Raise THEN Raise
    ELSE IF r[1] >= 1 /\ r[3] <= DaysIn(r[1], r[2]) THEN Date(r[1], r[2], r[3])
         ELSE Raise

\* datetime.strftime(dt, fmt)
RECURSIVE Strftime(_, _)
Strftime(dt, fmt) ==
    IF fmt = <<>> THEN <<>>
    ELSE LET it == fmt[1]
             piece == CASE it = "%d" -> PadDigits(dt[4], 2)
                        [] it = "%m" -> PadDigits(dt[3], 2)
                        [] it = "%Y" -> PadDigits(dt[2], 4)
                        [] it = "%y" -> PadDigits(dt[2] % 100, 2)
                        [] OTHER -> <<it>>
         IN piece \o Strftime(dt, Tail(fmt))

\* the items of a format given as text: "%" and the next character make a
\* directive, any other character is a literal
RECURSIVE Tokenize(_)
Tokenize(s) ==
    IF s = <<>> THEN <<>>
    ELSE IF s[1] = "%" /\ Len(s) >= 2
         THEN LET dir == CASE s[2] = "d" -> "%d" [] s[2] = "m" -> "%m"
                           [] s[2] = "Y" -> "%Y" [] s[2] = "y" -> "%y"
                           [] OTHER -> "%?"
              IN <<dir>> \o Tokenize(Drop(s, 2))
         ELSE <<s[1]>> \o Tokenize(Tail(s))

\* strptime / strftime with the format as the column map holds it; a format
\* that is no text (a decoded column letter) or names an unknown directive
\* raises
FormatOk(f) == IsStr(f) /\ "%?" \notin Range(Tokenize(f[2]))
ParseTime(s, f) == IF FormatOk(f) THEN Strptime(s, Tokenize(f[2])) ELSE Raise
FormatTime(dt, f) == IF FormatOk(f) THEN Strftime(dt, Tokenize(f[2])) ELSE Raise

(* ---------------------------- ColumnMap -------------------------------- *)
UpperLetters == <<"A", "B", "C", "D", "E", "F", "G", "H", "I", "J", "K", "L", "M",
                  "N", "O", "P", "Q", "R", "S", "T", "U", "V", "W", "X", "Y", "Z">>
LowerLetters == <<"a", "b", "c", "d", "e", "f", "g", "h", "i", "j", "k", "l", "m",
                  "n", "o", "p", "q", "r", "s", "t", "u", "v", "w", "x", "y", "z">>

IndexIn(c, s) == CHOOSE i \in 1..Len(s) : s[i] = c

\* ord(c) for letters
Ord(c) ==
    IF c \in Range(UpperLetters) THEN 64 + IndexIn(c, UpperLetters)
    ELSE 96 + IndexIn(c, LowerLetters)

\* ord("A") and ord("a")
upperffset == 65
loweroffset == 97

\* str.isalpha and str.isupper
IsAlpha(s) ==
    Len(s) > 0 /\ \A i \in 1..Len(s) : s[i] \in Range(UpperLetters) \cup Range(LowerLetters)
IsUpper(s) ==
    /\ \E i \in 1..Len(s) : s[i] \in Range(UpperLetters)
    /\ \A i \in 1..Len(s) : s[i] \notin Range(LowerLetters)

\* a decoding that takes every letter for an uppercase one
DecodeValUpper(val) ==
    IF IsStr(val) /\ IsAlpha(val[2]) /\ Len(val[2]) = 1
    THEN PInt(Ord(val[2][1]) - upperffset)
    ELSE val

\* what is stored for one value of the JSON document
DecodeVal(val) ==
    IF IsStr(val) /\ IsAlpha(val[2]) /\ Len(val[2]) = 1
    THEN IF IsUpper(val[2])
         THEN PInt(Ord(val[2][1]) - upperffset)
         ELSE PInt(Ord(val[2][1]) - loweroffset)
    ELSE val

\* self.__dict__ after the loop over the document's items
DecodeAll(csvdeff) == [key \in DOMAIN csvdeff |-> DecodeVal(csvdeff[key])]

\* the options that get a default, with the default
Defaults ==
    [accountType |-> Str(<<"B", "a", "n", "k">>),
     Separator |-> Str(<<",">>),
     StartLine |-> PInt(1),
     QifTimeFormat |-> Str(<<"%", "d", "/", "%", "m", "/", "%", "Y">>),
     CurrencySymbol |-> Str(<<>>)]

\* getattr(obj, name, None)
GetAttr(obj, name) == IF name \in DOMAIN obj THEN obj[name] ELSE None

\* "set some defaults"
ApplyDefaults(d) ==
    [key \in DOMAIN d \cup DOMAIN Defaults |->
        IF key \in DOMAIN Defaults /\ GetAttr(d, key) = None
        THEN Defaults[key] ELSE d[key]]

\* ColumnMap(deff_): the attributes of the column map
ColumnMap(csvdeff) == ApplyDefaults(DecodeAll(csvdeff))

(* ------------------------- field extraction ---------------------------- *)
\* obj.name: the attribute, or an AttributeError
Attr(obj, name) == IF name \in DOMAIN obj THEN obj[name] ELSE Raise

\* row[idx]: the cell, or an IndexError / TypeError
Cell(row, idx) ==
    IF ~IsInt(idx) THEN Raise
    ELSE LET n == idx[2] IN
         IF n >= 0
         THEN IF n < Len(row) THEN row[n + 1] ELSE Raise
         ELSE IF -n <= Len(row) THEN row[Len(row) + n + 1] ELSE Raise

\* "row and map and getattr(map, name, None) is not None"
Bound(row, map, name) == row # <<>> /\ GetAttr(map, name) # None

\* locale.atof(text.strip(map.CurrencySymbol))
AtofStrip(text, map) ==
    LET cs == Attr(map, "CurrencySymbol") IN
    IF IsStr(cs) THEN Atof(Strip(text, cs[2])) ELSE Raise

\* abs(x) of a float
AbsNum(v) == IF v = Raise THEN Raise ELSE Num(Abs(v[2]), v[3])

\* the value a non-empty cell gives a field, by the field's expression
Convert(conv, text, map) ==
    CASE conv = "raw" -> Str(text)
      [] conv = "first" -> Str(SubSeq(text, 1, 1))
      [] conv = "atof" -> AtofStrip(text, map)
      [] conv = "absatof" -> AbsNum(AtofStrip(text, map))
      [] conv = "atofnostrip" -> Atof(text)
      [] conv = "int" -> IntOf(text)

\* "<conv>(row[map.name]) if row and map and getattr(map, name, None) is not
\* None and len(row[map.name]) > 0 else None"
Field(row, map, name, conv) ==
    IF ~Bound(row, map, name) THEN None
    ELSE LET text == Cell(row, map[name]) IN
         IF text = Raise THEN Raise
         ELSE IF Len(text) = 0 THEN None
         ELSE Convert(conv, text, map)

\* self.date_in
DateIn(row, map) ==
    IF ~Bound(row, map, "date") THEN None
    ELSE LET text == Cell(row, map["date"]) IN
         IF text = Raise THEN Raise
         ELSE ParseTime(text, Attr(map, "CsvTimeFormat"))

\* self.date
DateOut(date_in, map) ==
    IF date_in = None THEN None
    ELSE IF date_in = Raise THEN Raise
    ELSE LET text == FormatTime(date_in, Attr(map, "QifTimeFormat")) IN
         IF text = Raise THEN Raise ELSE Str(text)

\* the outcome of a constructor or helper that raised
RaiseRec == [raise |-> Raise]

\* a record one of whose expressions raised, RaiseRec included
Raised(r) == \E a \in DOMAIN r : r[a] = Raise

(* ------------------------------ rules ---------------------------------- *)
\* a == b of Python on the values of the model
PyEq(a, b) ==
    IF IsNumeric(a) /\ IsNumeric(b)
    THEN NumerOf(a) * DenomOf(b) = NumerOf(b) * DenomOf(a)
    ELSE a = b

\* a < b of Python: a TypeError unless both are numbers
PyLess(a, b) ==
    IF IsNumeric(a) /\ IsNumeric(b)
    THEN IF NumerOf(a) * DenomOf(b) < NumerOf(b) * DenomOf(a)
         THEN "true" ELSE "false"
    ELSE "raise"

\* eval(cond) for the conditions of the model, against the record self:
\*   <<"true">>            True
\*   <<"eq", f, v>>        self.f == v
\*   <<"lt", f, v>>        self.f < v
\* "true", "false", or "raise" (an unknown attribute, an unordered pair)
EvalCond(self, cond) ==
    CASE cond[1] = "true" -> "true"
      [] cond[1] = "eq" ->
            IF cond[2] \notin DOMAIN self THEN "raise"
            ELSE IF PyEq(self[cond[2]], cond[3]) THEN "true" ELSE "false"
      [] cond[1] = "lt" ->
            IF cond[2] \notin DOMAIN self THEN "raise"
            ELSE PyLess(self[cond[2]], cond[3])

\* the record with attribute attr set to v (created when new)
SetAttr(rec, attr, v) == [a \in DOMAIN rec \cup {attr} |-> IF a = attr THEN v ELSE rec[a]]

\* an inversion that reads a text as a number when it can
InvertValueParsed(v) ==
    IF IsStr(v)
    THEN IF Atof(v[2]) # Raise THEN Num(Atof(v[2])[2] * (-1), Atof(v[2])[3])
         ELSE Str(<<"-">> \o v[2])
    ELSE IF IsInt(v) THEN PInt(v[2] * (-1))
    ELSE IF IsNum(v) THEN Num(v[2] * (-1), v[3])
    ELSE Raise

\* the inverted value: a text loses or gains its sign marker, a number is
\* multiplied by -1
InvertValue(v) ==
    IF IsStr(v)
    THEN LET oldval == v[2] IN
         IF oldval # <<>> /\ oldval[1] = "-" THEN Str(Drop(oldval, 1))
         ELSE IF oldval # <<>> /\ oldval[1] = "+" THEN Str(<<"-">> \o Drop(oldval, 1))
         ELSE Str(<<"-">> \o oldval)
    ELSE IF IsInt(v) THEN PInt(v[2] * (-1))
    ELSE IF IsNum(v) THEN Num(v[2] * (-1), v[3])
    ELSE Raise

invert_field(recordClass, attr) ==
    LET v == InvertValue(recordClass[attr]) IN
    IF v = Raise THEN RaiseRec ELSE SetAttr(recordClass, attr, v)

\* a op b on numbers; a / 0 is a ZeroDivisionError
Arith(a, math, b) ==
    LET n1 == NumerOf(a)  d1 == DenomOf(a)
        n2 == NumerOf(b)  d2 == DenomOf(b)
        ints == IsInt(a) /\ IsInt(b)
    IN CASE math = "+" -> IF ints THEN PInt(n1 + n2) ELSE Num(n1 * d2 + n2 * d1, d1 * d2)
         [] math = "-" -> IF ints THEN PInt(n1 - n2) ELSE Num(n1 * d2 - n2 * d1, d1 * d2)
         [] math = "*" -> IF ints THEN PInt(n1 * n2) ELSE Num(n1 * n2, d1 * d2)
         [] math = "/" -> IF n2 = 0 THEN Raise ELSE Num(n1 * d2, d1 * n2)

\* caluculate_field: the record after the rule, or RaiseRec
caluculate_field(recordClass, attr, rule) ==
    IF Len(rule) < 3 THEN recordClass
    ELSE LET field1 == rule[1]
             math == rule[2]
             field2 == rule[3]
             v1 == GetAttr(recordClass, field1)
             v2 == GetAttr(recordClass, field2)
         IN IF v1 # None /\ v2 # None
            THEN IF IsStr(v1) \/ IsStr(v2) THEN recordClass
                 ELSE IF math \notin {"+", "-", "*", "/"} THEN recordClass
                 ELSE IF ~(IsNumeric(v1) /\ IsNumeric(v2)) THEN RaiseRec
                 ELSE LET v == Arith(v1, math, v2) IN
                      IF v = Raise THEN RaiseRec ELSE SetAttr(recordClass, attr, v)
            ELSE IF v1 # None THEN SetAttr(recordClass, attr, v1)
            ELSE IF v2 # None THEN SetAttr(recordClass, attr, v2)
            ELSE recordClass

\* the rule table under name of the column map, as the sequence of its
\* <<attr, rule>> items in document order; empty when there is none
Rules(map, name) ==
    IF GetAttr(map, name) = None THEN <<>> ELSE map[name][2]

\* "any caluculated fields?": the rules from item i on; guarded is the
\* Invst form, which applies a rule only to a result field that has a value
RECURSIVE ApplyCalc(_, _, _, _)
ApplyCalc(rec, rules, i, guarded) ==
    IF Raised(rec) \/ i > Len(rules) THEN rec
    ELSE LET attr == rules[i][1]
             expr == rules[i][2]
         IN IF guarded /\ GetAttr(rec, attr) = None
            THEN ApplyCalc(rec, rules, i + 1, guarded)
            ELSE ApplyCalc(caluculate_field(rec, attr, expr), rules, i + 1, guarded)

\* the pairs of one translation list from position x on (x counts from 1)
RECURSIVE TranslatePairs(_, _, _, _)
TranslatePairs(rec, attr, list, x) ==
    IF Raised(rec) \/ x > Len(list) THEN rec
    ELSE LET cond == list[x]
             newval == list[x + 1]
             met == EvalCond(rec, cond)
         IN IF met = "raise" THEN RaiseRec
            ELSE IF met = "true"
                 THEN TranslatePairs(SetAttr(rec, attr, newval), attr, list, x + 2)
                 ELSE TranslatePairs(rec, attr, list, x + 2)

\* "any translations?": the lists from item i on
RECURSIVE ApplyTranslations(_, _, _, _)
ApplyTranslations(rec, rules, i, fields) ==
    IF Raised(rec) \/ i > Len(rules) THEN rec
    ELSE LET attr == rules[i][1]
             list == rules[i][2]
         IN IF attr \in Range(fields) /\ Len(list) % 2 = 0
            THEN ApplyTranslations(TranslatePairs(rec, attr, list, 1), rules, i + 1, fields)
            ELSE ApplyTranslations(rec, rules, i + 1, fields)

\* "change the sign on anything?": the rules from item i on
RECURSIVE ApplyInvert(_, _, _)
ApplyInvert(rec, rules, i) ==
    IF Raised(rec) \/ i > Len(rules) THEN rec
    ELSE LET attr == rules[i][1]
             cond == rules[i][2]
         IN IF GetAttr(rec, attr) = None THEN ApplyInvert(rec, rules, i + 1)
            ELSE LET met == EvalCond(rec, cond) IN
                 IF met = "raise" THEN RaiseRec
                 ELSE IF met = "true"
                      THEN ApplyInvert(invert_field(rec, attr), rules, i + 1)
                      ELSE ApplyInvert(rec, rules, i + 1)

(* ----------------------------- records --------------------------------- *)
\* get_formatted_string of BankRecord and InvstRecord: a line <<tag, value>>
\* per field whose value is not None, in the order of fields, then the
\* line <<"^">>
RECURSIVE FieldLines(_, _, _)
FieldLines(self, fields, ids) ==
    IF fields = <<>> THEN <<>>
    ELSE LET value == self[fields[1]] IN
         (IF value # None THEN <<<<ids[1], value>>>> ELSE <<>>)
            \o FieldLines(self, Tail(fields), Tail(ids))

\* a formatter that ends the record only when a field was written, as the
\* formatter of SecurityRecord does
FormattedWhenNonEmpty(self, fields, ids) ==
    LET result == FieldLines(self, fields, ids) IN
    IF Len(result) > 0 THEN result \o <<<<"^">>>> ELSE <<>>

get_formatted_string(self, fields, ids) ==
    FieldLines(self, fields, ids) \o <<<<"^">>>>

BankFields == <<"date", "amountT", "amountU", "cleared", "checkNum", "payee", "memo",
                "address", "category", "categoryInSplit", "memoInSplit",
                "amountOfSplit", "percentageOfSplit", "reimbursable">>
BankIds == <<"D", "T", "U", "C", "N", "P", "M", "A", "L", "S", "E", "$", "%", "F">>

\* the expression that fills each attribute of a BankRecord from its cell
BankConv ==
    [amountT |-> "atof", amountU |-> "atof", cleared |-> "first",
     checkNum |-> "raw", payee |-> "raw", memo |-> "raw", address |-> "raw",
     category |-> "raw", categoryInSplit |-> "raw", memoInSplit |-> "raw",
     amountOfSplit |-> "atof", percentageOfSplit |-> "atof",
     reimbursable |-> "raw", balance |-> "atof", Credit |-> "atof",
     Debit |-> "atof"]

\* BankRecord.__init__ up to the rules: the attributes read from the row
BankExtract(row, map) ==
    LET date_in == DateIn(row, map) IN
    [a \in DOMAIN BankConv \cup {"date_in", "date"} |->
        CASE a = "date_in" -> date_in
          [] a = "date" -> DateOut(date_in, map)
          [] OTHER -> Field(row, map, a, BankConv[a])]

\* BankRecord(row, map): the record, or a record that is Raised
BankRecord(row, map) ==
    LET r0 == BankExtract(row, map)
        r1 == ApplyCalc(r0, Rules(map, "CalculationRules"), 1, FALSE)
    IN ApplyInvert(r1, Rules(map, "InvertRules"), 1)

InvstFields == <<"date", "action", "security", "price", "quantity", "cleared",
                 "transfer_text", "memo", "commission", "category", "amountT",
                 "amountU", "amount_transferred">>
InvstIds == <<"D", "N", "Y", "I", "Q", "C", "P", "M", "O", "L", "T", "U", "$">>

\* the attributes of an InvstRecord filled by the common expression
InvstConv ==
    [security |-> "raw", memo |-> "raw", price |-> "absatof",
     transfer_text |-> "raw", category |-> "raw", amountT |-> "atof",
     amountU |-> "atof", amount_transferred |-> "atofnostrip", Fees |-> "atof"]

PromptStr == Str(<<"p", "r", "o", "m", "p", "t">>)

\* "translate action to QIF terms?": reply is what the operator types at
\* the prompt
ActionOf(row, map, reply) ==
    LET action == Field(row, map, "action", "raw") IN
    IF action = None \/ action = Raise THEN action
    ELSE LET valmap == GetAttr(map, "ActionMap") IN
         IF valmap = None THEN action
         ELSE IF action[2] \in DOMAIN valmap[2]
              THEN IF valmap[2][action[2]] = PromptStr
                   THEN Str(reply)
                   ELSE valmap[2][action[2]]
              ELSE action

\* self.quantity: kept only when int(cell) > 0
QuantityOf(row, map) ==
    IF ~Bound(row, map, "quantity") THEN None
    ELSE LET text == Cell(row, map["quantity"]) IN
         IF text = Raise THEN Raise
         ELSE IF Len(text) = 0 THEN None
         ELSE LET n == IntOf(text) IN
              IF n = Raise THEN Raise
              ELSE IF n[2] > 0 THEN AtofStrip(text, map) ELSE None

\* self.cleared: the cell is read through map.cleard
ClearedOf(row, map) ==
    IF ~Bound(row, map, "cleared") THEN None
    ELSE LET text == Cell(row, map["cleared"]) IN
         IF text = Raise THEN Raise
         ELSE IF Len(text) = 0 THEN None
         ELSE LET idx == Attr(map, "cleard") IN
              IF idx = Raise THEN Raise
              ELSE LET got == Cell(row, idx) IN
                   IF got = Raise THEN Raise ELSE Str(got)

\* the attributes of the global name map that is_float reads: the builtin
\* type map, which has no CurrencySymbol
BuiltinMap == [name |-> Str(<<"m", "a", "p">>)]

\* is_float(text): "true", "false", or "raise"; the except clause catches
\* the ValueError of atof only, not the AttributeError of the lookup
is_float(text) ==
    IF IsAlpha(text) THEN "false"
    ELSE LET cs == Attr(BuiltinMap, "CurrencySymbol") IN
         IF ~IsStr(cs) THEN "raise"
         ELSE IF Atof(Strip(text, cs[2])) = Raise THEN "false" ELSE "true"

\* self.commission
CommissionOf(row, map) ==
    IF ~Bound(row, map, "commission") THEN None
    ELSE LET text == Cell(row, map["commission"]) IN
         IF text = Raise THEN Raise
         ELSE IF Len(text) = 0 THEN None
         ELSE LET f == is_float(text) IN
              IF f = "raise" THEN Raise
              ELSE IF f = "true" THEN AtofStrip(text, map) ELSE None

\* self.Multiplier: int(cell), 1 without a cell
MultiplierOf(row, map) ==
    LET v == Field(row, map, "Multiplier", "int") IN
    IF v = None THEN PInt(1) ELSE v

\* InvstRecord.__init__ up to the rules
InvstExtract(row, map, reply) ==
    LET date_in == DateIn(row, map) IN
    [a \in DOMAIN InvstConv \cup {"date_in", "date", "action", "quantity",
                                  "cleared", "commission", "Multiplier"} |->
        CASE a = "date_in" -> date_in
          [] a = "date" -> DateOut(date_in, map)
          [] a = "action" -> ActionOf(row, map, reply)
          [] a = "quantity" -> QuantityOf(row, map)
          [] a = "cleared" -> ClearedOf(row, map)
          [] a = "commission" -> CommissionOf(row, map)
          [] a = "Multiplier" -> MultiplierOf(row, map)
          [] OTHER -> Field(row, map, a, InvstConv[a])]

\* the InvstRecord after "any caluculated fields?"
InvstCalculated(row, map, reply) ==
    ApplyCalc(InvstExtract(row, map, reply), Rules(map, "CalculationRules"), 1, TRUE)

\* InvstRecord(row, map): the record, or a record that is Raised
InvstRecord(row, map, reply) ==
    LET r1 == InvstCalculated(row, map, reply)
        r2 == ApplyTranslations(r1, Rules(map, "Translations"), 1, InvstFields)
    IN ApplyInvert(r2, Rules(map, "InvertRules"), 1)

SecurityFields == <<"security", "symbol", "type", "goal">>
SecurityIds == <<"N", "S", "T", "G">>

StockStr == Str(<<"S", "t", "o", "c", "k">>)
OptionStr == Str(<<"O", "p", "t", "i", "o", "n">>)

\* "row and map and getattr(map, name, None)": the binding must be truthy
BoundTruthy(row, map, name) == row # <<>> /\ Truthy(GetAttr(map, name))

\* self.typeTest, after "translate security type to QIF terms?"
TypeTestOf(row, map) ==
    IF ~BoundTruthy(row, map, "type") THEN None
    ELSE LET text == Cell(row, map["type"]) IN
         IF text = Raise THEN Raise
         ELSE IF Len(text) = 0 THEN None
         ELSE LET valmap == GetAttr(map, "SecurityTypeMap") IN
              IF valmap # None /\ text \in DOMAIN valmap[2]
              THEN valmap[2][text] ELSE Str(text)

\* self.security and self.goal: read only when the symbol has a value
AfterSymbol(row, map, name, symbol) ==
    IF ~BoundTruthy(row, map, name) \/ symbol = None THEN None
    ELSE LET text == Cell(row, map[name]) IN
         IF text = Raise THEN Raise
         ELSE IF Len(text) = 0 THEN None ELSE Str(text)

\* SecurityRecord.__init__ up to the rules: the attributes set, or a record
\* that is Raised; type, symbol, security and goal exist only for a 'Stock'
\* or 'Option'
SecurityExtract(row, map) ==
    LET typeTest == TypeTestOf(row, map) IN
    IF typeTest = Raise THEN RaiseRec
    ELSE IF typeTest # None /\ (typeTest = StockStr \/ typeTest = OptionStr)
    THEN LET symbol == Field(row, map, "symbol", "raw") IN
         [typeTest |-> typeTest,
          type |-> typeTest,
          symbol |-> symbol,
          security |-> AfterSymbol(row, map, "security", symbol),
          goal |-> AfterSymbol(row, map, "goal", symbol)]
    ELSE [typeTest |-> typeTest]

\* SecurityRecord(row, map): the translations run for a 'Stock' or 'Option'
SecurityRecord(row, map) ==
    LET r0 == SecurityExtract(row, map) IN
    IF "type" \in DOMAIN r0
    THEN ApplyTranslations(r0, Rules(map, "Translations"), 1, SecurityFields)
    ELSE r0

\* SecurityRecord.get_formatted_string: the lines; <<None>> when it returns
\* None (no line at all), <<Raise>> for a record without the attributes
SecurityFormatted(self) ==
    IF ~(Range(SecurityFields) \subseteq DOMAIN self) THEN <<Raise>>
    ELSE LET result == FieldLines(self, SecurityFields, SecurityIds) IN
         IF Len(result) > 0 THEN result \o <<<<"^">>>> ELSE <<None>>

\* AccountRecord(map): the attributes; taxRate must parse as a number
AccountFields == <<"account", "accountType", "taxRate", "description", "limit", "balance">>
AccountIds == <<"N", "T", "R", "D", "L", "$">>

AccountRecord(map) ==
    [account |-> GetAttr(map, "account"),
     accountType |-> GetAttr(map, "accountType"),
     taxRate |-> IF GetAttr(map, "taxRate") # None
                 THEN IF IsStr(map["taxRate"]) THEN Atof(map["taxRate"][2]) ELSE Raise
                 ELSE None,
     description |-> GetAttr(map, "description"),
     limit |-> GetAttr(map, "limit"),
     balance |-> None]

\* AccountRecord.get_formatted_string
AccountFormatted(self) ==
    (IF self["account"] # None THEN <<<<"!Account">>>> ELSE <<>>)
        \o FieldLines(self, AccountFields, AccountIds) \o <<<<"^">>>>

(* ------------------------------ state ---------------------------------- *)
VARIABLES
    \* readCsv
    colmap,        \* the ColumnMap
    csv,           \* the rows of the CSV file inf_
    pos,           \* the rows of inf_ already read through csvIn
    pc,            \* where readCsv stands
    acct_rec,      \* the AccountRecord, NoRec before it is made
    latestDate,    \* the latest date seen by the account pass
    sec_list,      \* the symbols seen by the security pass
    sec_rec,       \* the lines buffered by the security pass
    sec_len,       \* what the security pass has buffered, header excluded
    transact_rec,  \* the lines buffered by the transaction pass
    transact_len,  \* what the transaction pass has buffered, header excluded
    outf,          \* the lines written to the QIF file outf_
    diag,          \* the passes whose except clause printed its message
    \* one record built from one row
    kind,          \* "Bank", "Invst" or "Security"
    row,           \* the CSV row
    reply,         \* what the operator types at a prompt
    rec,           \* the record, NoRec before it is built
    lines,         \* the lines of get_formatted_string
    phase,         \* "new", "built" or "formatted"
    \* invert_field applied again and again to one attribute
    hist,          \* the values of the attribute so far, oldest first
    \* ColumnMap built from one JSON document
    csvdeff,       \* the document
    stored         \* self.__dict__ after the loop over the document's items

readVars == <<colmap, csv, pos, pc, acct_rec, latestDate, sec_list, sec_rec,
              sec_len, transact_rec, transact_len, outf, diag>>
recVars == <<kind, row, reply, rec, lines, phase>>
mapVars == <<csvdeff, stored>>
vars == <<readVars, recVars, hist, mapVars>>

\* no record
NoRec == [none |-> None]

\* the variables of a part of the program that a specification does not run
ReadIdle ==
    /\ csv = <<>> /\ pos = 0 /\ pc = "Idle" /\ acct_rec = NoRec
    /\ latestDate = DateMin /\ sec_list = <<>> /\ sec_rec = <<>> /\ sec_len = 0
    /\ transact_rec = <<>> /\ transact_len = 0 /\ outf = <<>> /\ diag = {}
RecIdle ==
    /\ kind = "None" /\ row = <<>> /\ reply = <<>> /\ rec = NoRec
    /\ lines = <<>> /\ phase = "Idle"
MapIdle == csvdeff = NoRec /\ stored = NoRec

(* ------------------------- inputs of readCsv --------------------------- *)
FmtMDY4 == Str(<<"%", "m", "/", "%", "d", "/", "%", "Y">>)
FmtMDY2 == Str(<<"%", "m", "/", "%", "d", "/", "%", "y">>)
InvstStr == Str(<<"I", "n", "v", "s", "t">>)

\* JSON definition files. A Bank file with date, amount, payee (and balance)
\* in columns A to D; an Invst file with date, type, symbol, security.
BankBase ==
    ("CsvTimeFormat" :> FmtMDY4) @@ ("date" :> Str(<<"A">>))
        @@ ("amountT" :> Str(<<"B">>)) @@ ("payee" :> Str(<<"C">>))
InvstBase ==
    ("CsvTimeFormat" :> FmtMDY4) @@ ("accountType" :> InvstStr)
        @@ ("date" :> Str(<<"A">>)) @@ ("type" :> Str(<<"B">>))
        @@ ("symbol" :> Str(<<"C">>)) @@ ("security" :> Str(<<"D">>))

\* no account entry at all
DocBankNoAccount == BankBase
\* an empty account name, a header row to skip
DocBankNoName == ("account" :> Str(<<>>)) @@ ("StartLine" :> PInt(2)) @@ BankBase
\* an account name, no balance column
DocBankAccount == ("account" :> Str(<<"C", "k">>)) @@ BankBase
\* an account name and a balance column
DocBankBalance == ("balance" :> Str(<<"D">>)) @@ DocBankAccount
\* the same, with two-digit years in the QIF file
DocBankBalanceY2 == ("QifTimeFormat" :> FmtMDY2) @@ DocBankBalance
DocInvst == ("account" :> Str(<<"B", "k">>)) @@ InvstBase
DocInvstNoName == ("account" :> Str(<<>>)) @@ ("StartLine" :> PInt(2)) @@ InvstBase

BankDocs == {DocBankNoAccount, DocBankNoName, DocBankAccount, DocBankBalance,
             DocBankBalanceY2}
InvstDocs == {DocInvst, DocInvstNoName}

\* rows of a Bank file: three dated rows with balances 10, 30 and 20, a
\* fourth with the date of the third and balance 40, a row cut short after
\* the amount, and a blank line
BankRows ==
    {<<<<"1", "2", "/", "3", "1", "/", "1", "9", "6", "8">>, <<"5">>, <<"a">>, <<"1", "0">>>>,
     <<<<"0", "1", "/", "0", "1", "/", "1", "9", "6", "9">>, <<"-", "3">>, <<"b">>, <<"3", "0">>>>,
     <<<<"0", "2", "/", "1", "0", "/", "2", "0", "2", "0">>, <<"7">>, <<"c">>, <<"2", "0">>>>,
     <<<<"0", "2", "/", "1", "0", "/", "2", "0", "2", "0">>, <<"1">>, <<"d">>, <<"4", "0">>>>,
     <<<<"0", "3", "/", "0", "1", "/", "2", "0", "2", "0">>, <<"2">>>>,
     <<>>}

\* rows of an Invst file: symbols X, Y and X again, a row whose type does
\* not qualify, a row cut short after the type, and a blank line
InvstRows ==
    {<<<<"0", "1", "/", "0", "5", "/", "2", "0", "2", "0">>, <<"S", "t", "o", "c", "k">>, <<"X">>, <<"X", "s">>>>,
     <<<<"0", "1", "/", "0", "6", "/", "2", "0", "2", "0">>, <<"S", "t", "o", "c", "k">>, <<"Y">>, <<"Y", "s">>>>,
     <<<<"0", "1", "/", "0", "7", "/", "2", "0", "2", "0">>, <<"O", "p", "t", "i", "o", "n">>, <<"X">>, <<"X", "o">>>>,
     <<<<"0", "1", "/", "0", "8", "/", "2", "0", "2", "0">>, <<"B", "o", "n", "d">>, <<"Z">>, <<"Z", "b">>>>,
     <<<<"0", "1", "/", "0", "9", "/", "2", "0", "2", "0">>, <<"S", "t", "o", "c", "k">>>>,
     <<>>}

\* the replies of the operator at a prompt
Replies == {<<"B", "u", "y">>}

\* all sequences over S of length at most n
SeqsUpTo(S, n) == UNION {[1..k -> S] : k \in 0..n}

(* ------------------------------ readCsv -------------------------------- *)
SecurityHeader == <<"!Type:", Str(<<"S", "e", "c", "u", "r", "i", "t", "y">>)>>

\* "!Type:" + colmap.accountType
TypeHeader(map) == <<"!Type:", map["accountType"]>>

IsInvst(map) == PyEq(map["accountType"], InvstStr)

\* the position of the cursor after "for x in range(1, colmap.StartLine):
\* next(csvIn, None)" started at position p of a file of n rows
AfterSkip(p, n, map) ==
    LET start == map["StartLine"][2]
        to == IF start > 1 THEN p + (start - 1) ELSE p
    IN IF to > n THEN n ELSE to

\* a pass that leaves the cursor where its scan ended
NoRewind(p) == p

\* inf_.seek(0): the cursor, from position p, is back before the first row
Rewind(p) == 0

InitRead ==
    /\ \/ \E doc \in BankDocs :
            /\ colmap = ColumnMap(doc)
            /\ csv \in SeqsUpTo(BankRows, MaxRows)
       \/ \E doc \in InvstDocs :
            /\ colmap = ColumnMap(doc)
            /\ csv \in SeqsUpTo(InvstRows, MaxRows)
    /\ pos = 0 /\ pc = "Init" /\ acct_rec = NoRec /\ latestDate = DateMin
    /\ sec_list = <<>> /\ sec_rec = <<>> /\ sec_len = 0
    /\ transact_rec = <<>> /\ transact_len = 0 /\ outf = <<>> /\ diag = {}

\* an exception leaves readCsv
Escape ==
    /\ pc' = "Escaped"
    /\ UNCHANGED <<colmap, csv, pos, acct_rec, latestDate, sec_list, sec_rec,
                   sec_len, transact_rec, transact_len, outf, diag>>

\* lines 458-469 and 483: the account record, and the start of its pass when
\* the file has a balance column and is not an Invst file
Begin ==
    /\ pc = "Init"
    /\ LET account == Attr(colmap, "account") IN
       IF account = Raise THEN Escape
       ELSE IF Truthy(account) /\ colmap["accountType"] # None
       THEN LET a == AccountRecord(colmap) IN
            IF Raised(a) THEN Escape
            ELSE IF ~PyEq(a["accountType"], InvstStr) /\ GetAttr(colmap, "balance") # None
            THEN IF ~IsInt(colmap["StartLine"]) THEN Escape
                 ELSE /\ acct_rec' = a
                      /\ pos' = AfterSkip(pos, Len(csv), colmap)
                      /\ latestDate' = DateMin
                      /\ pc' = "AccountPass"
                      /\ UNCHANGED <<colmap, csv, sec_list, sec_rec, sec_len,
                                     transact_rec, transact_len, outf, diag>>
            ELSE /\ acct_rec' = a
                 /\ outf' = outf \o AccountFormatted(a)
                 /\ pc' = "SecurityCheck"
                 /\ UNCHANGED <<colmap, csv, pos, latestDate, sec_list, sec_rec,
                                sec_len, transact_rec, transact_len, diag>>
       ELSE /\ pc' = "SecurityCheck"
            /\ UNCHANGED <<colmap, csv, pos, acct_rec, latestDate, sec_list,
                           sec_rec, sec_len, transact_rec, transact_len, outf, diag>>

\* the account pass after the record r of one row: the balance of a later
\* date replaces the one held
AccountUpdate(acct, latest, r, map) ==
    IF r["date"] # None /\ r["balance"] # None
    THEN LET rec_time == ParseTime(r["date"][2], map["QifTimeFormat"]) IN
         IF rec_time = Raise THEN <<Raise>>
         ELSE IF DateGreater(rec_time, latest)
              THEN <<[acct EXCEPT !["balance"] = r["balance"]], rec_time>>
              ELSE <<acct, latest>>
    ELSE <<acct, latest>>

\* lines 471-481: one row of the account pass
AccountRow ==
    /\ pc = "AccountPass" /\ pos < Len(csv)
    /\ pos' = pos + 1
    /\ \E r \in {BankRecord(csv[pos + 1], colmap)} :
       \E u \in {IF Raised(r) THEN <<Raise>>
                  ELSE AccountUpdate(acct_rec, latestDate, r, colmap)} :
          IF u = <<Raise>>
          THEN /\ diag' = diag \cup {"AccountRecord"}
               /\ pc' = "AccountFailed"
               /\ UNCHANGED <<acct_rec, latestDate>>
          ELSE /\ acct_rec' = u[1]
               /\ latestDate' = u[2]
               /\ UNCHANGED <<pc, diag>>
    /\ UNCHANGED <<colmap, csv, sec_list, sec_rec, sec_len, transact_rec,
                   transact_len, outf>>

\* lines 482-483: the end of the account pass, complete or failed
AccountEnd ==
    /\ \/ pc = "AccountPass" /\ pos = Len(csv)
       \/ pc = "AccountFailed"
    /\ pos' = Rewind(pos)
    /\ outf' = outf \o AccountFormatted(acct_rec)
    /\ pc' = "SecurityCheck"
    /\ UNCHANGED <<colmap, csv, acct_rec, latestDate, sec_list, sec_rec, sec_len,
                   transact_rec, transact_len, diag>>

\* lines 486-491: the security pass starts for an Invst file only
SecurityBegin ==
    /\ pc = "SecurityCheck"
    /\ IF IsInvst(colmap)
       THEN IF ~IsInt(colmap["StartLine"]) THEN Escape
            ELSE /\ sec_rec' = <<>>
                 /\ sec_list' = <<>>
                 /\ pos' = AfterSkip(pos, Len(csv), colmap)
                 /\ sec_len' = 0
                 /\ pc' = "SecurityPass"
                 /\ UNCHANGED <<colmap, csv, acct_rec, latestDate, transact_rec,
                                transact_len, outf, diag>>
       ELSE /\ pc' = "TransactionBegin"
            /\ UNCHANGED <<colmap, csv, pos, acct_rec, latestDate, sec_list,
                           sec_rec, sec_len, transact_rec, transact_len, outf, diag>>

\* a membership test that looks at the last symbol of the list only
SeenLast(symbol, list) == list # <<>> /\ list[Len(list)] = symbol

\* "rec.symbol not in sec_list" holds when this is false
Seen(symbol, list) == symbol \in Range(list)

\* lines 493-500 and 504-505: one row of the security pass
SecurityRow ==
    /\ pc = "SecurityPass" /\ pos < Len(csv)
    /\ pos' = pos + 1
    /\ \E r \in {SecurityRecord(csv[pos + 1], colmap)} :
       IF Raised(r)
       THEN /\ diag' = diag \cup {"SecurityRecord"}
            /\ pc' = "SecurityFailed"
            /\ UNCHANGED <<sec_list, sec_rec, sec_len>>
       ELSE IF GetAttr(r, "type") # None /\ ~Seen(r["symbol"], sec_list)
       THEN LET text == SecurityFormatted(r)
                head == IF sec_len = 0 THEN <<SecurityHeader>> ELSE <<>>
            IN /\ sec_list' = Append(sec_list, r["symbol"])
               /\ IF text = <<Raise>> \/ text = <<None>>
                  THEN /\ sec_rec' = sec_rec \o head
                       /\ diag' = diag \cup {"SecurityRecord"}
                       /\ pc' = "SecurityFailed"
                       /\ UNCHANGED sec_len
                  ELSE /\ sec_rec' = sec_rec \o head \o text
                       /\ sec_len' = sec_len + Len(text)
                       /\ UNCHANGED <<pc, diag>>
       ELSE UNCHANGED <<sec_list, sec_rec, sec_len, pc, diag>>
    /\ UNCHANGED <<colmap, csv, acct_rec, latestDate, transact_rec, transact_len, outf>>

\* a pass that writes what it buffered whether it completed or not
WrittenAlways(complete, len, buf) == buf

\* what the security pass writes to outf_: its buffer, when the loop
\* completed and buffered a record
SecurityWritten(complete, len, buf) == IF complete /\ len > 0 THEN buf ELSE <<>>

\* what the transaction pass writes to outf_: its buffer, when the loop
\* completed
TransactionWritten(complete, len, buf) == IF complete THEN buf ELSE <<>>

\* lines 501-503 and 506: the end of the security pass, complete or failed
SecurityEnd ==
    /\ \/ pc = "SecurityPass" /\ pos = Len(csv)
       \/ pc = "SecurityFailed"
    /\ outf' = outf \o SecurityWritten(pc = "SecurityPass", sec_len, sec_rec)
    /\ pos' = Rewind(pos)
    /\ pc' = "TransactionBegin"
    /\ UNCHANGED <<colmap, csv, acct_rec, latestDate, sec_list, sec_rec, sec_len,
                   transact_rec, transact_len, diag>>

\* lines 509-513: the start of the transaction pass
TransactionBegin ==
    /\ pc = "TransactionBegin"
    /\ IF ~IsInt(colmap["StartLine"]) THEN Escape
       ELSE /\ pos' = AfterSkip(pos, Len(csv), colmap)
            /\ transact_rec' = <<>>
            /\ transact_len' = 0
            /\ pc' = "TransactionPass"
            /\ UNCHANGED <<colmap, csv, acct_rec, latestDate, sec_list, sec_rec,
                           sec_len, outf, diag>>

\* the record the transaction pass makes of row r; rp is the operator's reply
TransactionRecord(r, map, rp) ==
    IF IsInvst(map) THEN InvstRecord(r, map, rp) ELSE BankRecord(r, map)

\* lines 515-522 and 525-526: one row of the transaction pass
TransactionRow ==
    /\ pc = "TransactionPass" /\ pos < Len(csv)
    /\ pos' = pos + 1
    /\ \E rp \in Replies : \E r \in {TransactionRecord(csv[pos + 1], colmap, rp)} :
        LET kindOk == IsStr(colmap["accountType"])
            head == IF transact_len = 0 THEN <<TypeHeader(colmap)>> ELSE <<>>
        IN IF Raised(r) \/ (transact_len = 0 /\ ~kindOk)
           THEN /\ diag' = diag \cup {"data record"}
                /\ pc' = "TransactionFailed"
                /\ UNCHANGED <<transact_rec, transact_len>>
           ELSE LET text == IF IsInvst(colmap)
                            THEN get_formatted_string(r, InvstFields, InvstIds)
                            ELSE get_formatted_string(r, BankFields, BankIds)
                IN /\ transact_rec' = transact_rec \o head \o text
                   /\ transact_len' = transact_len + Len(text)
                   /\ UNCHANGED <<pc, diag>>
    /\ UNCHANGED <<colmap, csv, acct_rec, latestDate, sec_list, sec_rec, sec_len, outf>>

\* lines 523-526: the end of the transaction pass, complete or failed
TransactionEnd ==
    /\ \/ pc = "TransactionPass" /\ pos = Len(csv)
       \/ pc = "TransactionFailed"
    /\ outf' = outf \o TransactionWritten(pc = "TransactionPass", transact_len, transact_rec)
    /\ pc' = "Done"
    /\ UNCHANGED <<colmap, csv, pos, acct_rec, latestDate, sec_list, sec_rec,
                   sec_len, transact_rec, transact_len, diag>>

Init == InitRead /\ RecIdle /\ hist = <<>> /\ MapIdle

Next ==
    \/ Begin /\ UNCHANGED <<recVars, hist, mapVars>>
    \/ AccountRow /\ UNCHANGED <<recVars, hist, mapVars>>
    \/ AccountEnd /\ UNCHANGED <<recVars, hist, mapVars>>
    \/ SecurityBegin /\ UNCHANGED <<recVars, hist, mapVars>>
    \/ SecurityRow /\ UNCHANGED <<recVars, hist, mapVars>>
    \/ SecurityEnd /\ UNCHANGED <<recVars, hist, mapVars>>
    \/ TransactionBegin /\ UNCHANGED <<recVars, hist, mapVars>>
    \/ TransactionRow /\ UNCHANGED <<recVars, hist, mapVars>>
    \/ TransactionEnd /\ UNCHANGED <<recVars, hist, mapVars>>

Spec == Init /\ [][Next]_vars

(* ------------------------- readCsv: properties ------------------------- *)
\* a header line of the output
IsHeader(l) == l[1] \in {"!Account", "!Type:"}

\* the first row a pass reads, and the rows it reads
FirstRow == AfterSkip(0, Len(csv), colmap) + 1
PassRows == FirstRow..Len(csv)

\* the passes are over
PastAccount == pc \notin {"Init", "AccountPass", "AccountFailed"}
PastSecurity == pc \in {"TransactionBegin", "TransactionPass", "TransactionFailed", "Done"}

\* C2: each header of the output occurs once; a record follows it before
\* any other header and before the end; the output starts with a header; a
\* pass that failed, or that buffered no record, leaves no header of its
\* section in the output.
HeadersLaw ==
    /\ \A i, j \in 1..Len(outf) :
          IsHeader(outf[i]) /\ outf[i] = outf[j] => i = j
    /\ \A i \in 1..Len(outf) :
          IsHeader(outf[i]) =>
              \E k \in (i + 1)..Len(outf) :
                  /\ outf[k] = <<"^">>
                  /\ \A j \in (i + 1)..k : ~IsHeader(outf[j])
    /\ outf # <<>> => IsHeader(outf[1])
    /\ "SecurityRecord" \in diag => SecurityHeader \notin Range(outf)
    /\ "data record" \in diag => TypeHeader(colmap) \notin Range(outf)
    /\ PastSecurity /\ sec_len = 0 => SecurityHeader \notin Range(outf)
    /\ pc = "Done" /\ transact_len = 0 => TypeHeader(colmap) \notin Range(outf)

\* C2 witness: a finished run whose output holds the three headers
HeadersSeen ==
    /\ pc = "Done"
    /\ {<<"!Account">>, SecurityHeader, TypeHeader(colmap)} \subseteq Range(outf)

\* the lines of the Security section of the output
SecSection ==
    IF SecurityHeader \notin Range(outf) THEN <<>>
    ELSE LET h == CHOOSE i \in 1..Len(outf) : outf[i] = SecurityHeader
             later == {j \in (h + 1)..Len(outf) : IsHeader(outf[j])}
             e == IF later = {} THEN Len(outf)
                  ELSE (CHOOSE j \in later : \A k \in later : j <= k) - 1
         IN SubSeq(outf, h + 1, e)

IsSymbolLine(l) == l[1] = "S"
IsEndLine(l) == l = <<"^">>

\* the symbols of the Security section, in the order of their records
SecSymbols == SelectSeq(SecSection, IsSymbolLine)

\* a sequence without the repetitions of its elements
RECURSIVE Dedup(_)
Dedup(q) ==
    IF q = <<>> THEN <<>>
    ELSE LET d == Dedup(SubSeq(q, 1, Len(q) - 1)) IN
         IF q[Len(q)] \in Range(d) THEN d ELSE Append(d, q[Len(q)])

\* the row has a type cell that qualifies and a symbol cell
Qualifies(r) ==
    /\ Len(r) >= 3
    /\ r[2] \in {<<"S", "t", "o", "c", "k">>, <<"O", "p", "t", "i", "o", "n">>}
    /\ r[3] # <<>>

\* the symbols of the rows of the pass, one per row
RowSymbols == [i \in 1..(Len(csv) - FirstRow + 1) |-> csv[FirstRow + i - 1][3]]

\* C4: no symbol is emitted twice; after a security pass that did not
\* fail over rows whose types all qualify, the Security section holds one
\* record per distinct symbol, in the order the symbols were first seen.
SecurityLaw ==
    /\ \A i, j \in 1..Len(SecSymbols) : SecSymbols[i] = SecSymbols[j] => i = j
    /\ (/\ IsInvst(colmap) /\ PastSecurity /\ "SecurityRecord" \notin diag
        /\ \A i \in PassRows : Qualifies(csv[i]))
       => LET want == Dedup(RowSymbols) IN
          /\ SecSymbols = [i \in 1..Len(want) |-> <<"S", Str(want[i])>>]
          /\ Len(SelectSeq(SecSection, IsEndLine)) = Len(want)

\* C4 witness: a finished security pass over three qualifying rows, the
\* third repeating the symbol of the first
SecuritySeen ==
    /\ IsInvst(colmap) /\ PastSecurity /\ "SecurityRecord" \notin diag
    /\ Len(csv) - FirstRow + 1 >= 3
    /\ \A i \in PassRows : Qualifies(csv[i])
    /\ csv[FirstRow][3] = csv[FirstRow + 2][3]
    /\ csv[FirstRow][3] # csv[FirstRow + 1][3]
    /\ Len(SecSymbols) = 2

\* the date of a row as the CSV file gives it
RowDate(i) == ParseTime(csv[i][1], colmap["CsvTimeFormat"])

\* the row carries a date and a balance
HasBalance(i) ==
    /\ Len(csv[i]) >= 4 /\ csv[i][4] # <<>>
    /\ RowDate(i) # Raise

\* the account pass ran over the rows and did not fail
AccountPassed ==
    /\ PastAccount /\ acct_rec # NoRec /\ ~IsInvst(colmap)
    /\ GetAttr(colmap, "balance") # None
    /\ "AccountRecord" \notin diag

\* C5: after an account pass over rows that all carry a date and a
\* balance, with dates that differ from row to row, the Account record
\* holds the balance of the row with the latest date.
BalanceLaw ==
    (/\ AccountPassed /\ PassRows # {}
     /\ \A i \in PassRows : HasBalance(i)
     /\ \A i, j \in PassRows : i # j => RowDate(i) # RowDate(j))
    => \E i \in PassRows :
          /\ \A j \in PassRows : j # i => DateGreater(RowDate(i), RowDate(j))
          /\ acct_rec["balance"] = Atof(csv[i][4])

\* the rows of the pass that carry the latest date, and the last of them
LatestRows ==
    {i \in PassRows : \A j \in PassRows : ~DateGreater(RowDate(j), RowDate(i))}
LastLatest == CHOOSE i \in LatestRows : \A j \in LatestRows : j <= i

\* C14: after an account pass over rows that all carry a date and a
\* balance, two or more of them the latest date, the Account record holds
\* the balance of the last of these rows in scan order.
TieLaw ==
    (/\ AccountPassed
     /\ \A i \in PassRows : HasBalance(i)
     /\ Cardinality(LatestRows) >= 2)
    => acct_rec["balance"] = Atof(csv[LastLatest][4])

\* the reply of the operator
TheReply == CHOOSE rp \in Replies : TRUE

\* the transaction record of row i and its lines
RowRecord(i) == TransactionRecord(csv[i], colmap, TheReply)
RowLines(i) ==
    IF IsInvst(colmap) THEN get_formatted_string(RowRecord(i), InvstFields, InvstIds)
    ELSE get_formatted_string(RowRecord(i), BankFields, BankIds)

\* the lines of the rows from row i on whose record is made without error
RECURSIVE GoodLines(_)
GoodLines(i) ==
    IF i > Len(csv) THEN <<>>
    ELSE (IF Raised(RowRecord(i)) THEN <<>> ELSE RowLines(i)) \o GoodLines(i + 1)

\* the last n lines of the output
OutTail(n) == SubSeq(outf, Len(outf) - n + 1, Len(outf))

\* C7 as the spec states it: a row that fails is skipped alone, and the
\* records of all other rows of the pass are written under the header.
RowLocalRecovery ==
    pc = "Done" =>
        LET good == GoodLines(FirstRow)
            want == IF good = <<>> THEN <<>> ELSE <<TypeHeader(colmap)>> \o good
        IN Len(outf) >= Len(want) /\ OutTail(Len(want)) = want

\* C7 amended: a row that fails ends the transaction pass: the diagnostic
\* is printed, the end of the pass writes nothing to the output (neither
\* the header nor the records buffered for the rows before), and readCsv
\* is done.
PassAbandoned ==
    [][/\ ("data record" \in diag' /\ "data record" \notin diag
            => pc' = "TransactionFailed" /\ outf' = outf)
       /\ (pc = "TransactionFailed"
            => pc' = "Done" /\ outf' = outf
               /\ TypeHeader(colmap) \notin Range(outf'))]_vars

\* C7 witness: the pass failed on a row after it buffered the record of
\* an earlier row, and the finished run wrote no transaction section
AbandonedSeen ==
    /\ pc = "Done" /\ "data record" \in diag
    /\ transact_len > 0
    /\ TypeHeader(colmap) \notin Range(outf)

\* the rows before row StartLine, which every pass skips
Skipped ==
    IF colmap["StartLine"][2] - 1 < Len(csv) THEN colmap["StartLine"][2] - 1
    ELSE Len(csv)

\* the rows a pass has visited when the cursor stands at p
Visited(p) == (Skipped + 1)..p

\* the lines of the transaction records of rows lo to hi
RECURSIVE LinesOf(_, _)
LinesOf(lo, hi) == IF lo > hi THEN <<>> ELSE LinesOf(lo, hi - 1) \o RowLines(hi)

\* what a transaction pass has buffered that started at row StartLine and
\* has visited every row up to row hi
Buffered(hi) ==
    IF hi > Skipped THEN <<TypeHeader(colmap)>> \o LinesOf(Skipped + 1, hi) ELSE <<>>

\* the symbol of a row that the security pass takes up
TakenUp(i) == GetAttr(SecurityRecord(csv[i], colmap), "type") # None
SymbolOf(i) == SecurityRecord(csv[i], colmap)["symbol"]

\* C15: every pass starts with the cursor before the first row, whichever
\* passes ran, were skipped or failed before it; it skips the StartLine - 1
\* rows before row StartLine and then visits the rows from row StartLine
\* on, one by one, up to the last row or the row it fails on. The account
\* pass holds a balance of a visited row, the security pass the symbols of
\* the visited rows, and the transaction pass the records of exactly the
\* rows from row StartLine to the cursor, in order.
CursorLaw ==
    /\ pc \in {"Init", "SecurityCheck", "TransactionBegin"} => pos = 0
    /\ pc \in {"AccountPass", "SecurityPass", "TransactionPass"}
          => Skipped <= pos /\ pos <= Len(csv)
    /\ pc \in {"AccountFailed", "SecurityFailed", "TransactionFailed"}
          => Skipped < pos /\ pos <= Len(csv)
    /\ pc = "AccountPass" /\ acct_rec["balance"] # None
          => \E i \in Visited(pos) :
                Len(csv[i]) >= 4 /\ acct_rec["balance"] = Atof(csv[i][4])
    /\ pc = "SecurityPass"
          => /\ \A i \in Visited(pos) : TakenUp(i) => SymbolOf(i) \in Range(sec_list)
             /\ \A k \in 1..Len(sec_list) :
                   \E i \in Visited(pos) : TakenUp(i) /\ SymbolOf(i) = sec_list[k]
    /\ pc = "TransactionPass" => transact_rec = Buffered(pos)
    /\ pc = "TransactionFailed" => transact_rec = Buffered(pos - 1)
    /\ pc = "Done" /\ "data record" \notin diag
          => /\ pos = Len(csv)
             /\ transact_rec = Buffered(Len(csv))
             /\ OutTail(Len(transact_rec)) = transact_rec

\* C15 witness: the account pass failed on the second of three rows and
\* left the cursor there; the transaction pass started again before the
\* first row, buffered the record of the first row and reached the second
CursorSeen ==
    /\ "AccountRecord" \in diag /\ pc = "TransactionFailed"
    /\ Len(csv) = 3 /\ pos = 2 /\ Skipped = 0
    /\ transact_len > 0 /\ transact_rec = Buffered(1)

\* C8: no exception escapes readCsv, whatever the definition file: with or
\* without an account name, with or without a balance column, Bank or
\* Invst.
NoEscape == pc # "Escaped"

(* ----------------------- one record from one row ----------------------- *)
Operators == {"+", "-", "*", "/"}

\* a rule table of one entry
OneRule(attr, rule) == <<"rules", <<<<attr, rule>>>>>>

\* Bank definition: date, amountT, Credit, Debit in columns A to D, and
\* "CalculationRules": {"amountT": ["Credit", op, "Debit"]}
BankCalcDoc(op) ==
    ("CsvTimeFormat" :> FmtMDY4) @@ ("date" :> Str(<<"A">>))
        @@ ("amountT" :> Str(<<"B">>)) @@ ("Credit" :> Str(<<"C">>))
        @@ ("Debit" :> Str(<<"D">>))
        @@ ("CalculationRules" :> OneRule("amountT", <<"Credit", op, "Debit">>))

\* Invst definition: date, amountT, price, Fees in columns A to D, and
\* "CalculationRules": {"amountT": ["price", op, "Fees"]}
InvstCalcDoc(op) ==
    ("CsvTimeFormat" :> FmtMDY4) @@ ("accountType" :> InvstStr)
        @@ ("date" :> Str(<<"A">>)) @@ ("amountT" :> Str(<<"B">>))
        @@ ("price" :> Str(<<"C">>)) @@ ("Fees" :> Str(<<"D">>))
        @@ ("CalculationRules" :> OneRule("amountT", <<"price", op, "Fees">>))

\* the cells of the three number columns: empty, 6, 0 and 1.5
CalcCells == {<<>>, <<"6">>, <<"0">>, <<"1", ".", "5">>}
ADate == <<"0", "2", "/", "1", "0", "/", "2", "0", "2", "0">>
CalcRows == {<<ADate, b, c, d>> : b \in CalcCells, c \in CalcCells, d \in CalcCells}

\* the conditions of a translation of field f: True, self.f == 'A' and
\* self.f == 'B'
TransConds(f) == {<<"true">>, <<"eq", f, Str(<<"A">>)>>, <<"eq", f, Str(<<"B">>)>>}

\* "Translations": {f: [c1, "B", c2, "C"]}
TransRule(f, c1, c2) == OneRule(f, <<c1, Str(<<"B">>), c2, Str(<<"C">>)>>)

\* Invst definition: date and category in columns A and B, a translation
\* of category
InvstTransDoc(c1, c2) ==
    ("CsvTimeFormat" :> FmtMDY4) @@ ("accountType" :> InvstStr)
        @@ ("date" :> Str(<<"A">>)) @@ ("category" :> Str(<<"B">>))
        @@ ("Translations" :> TransRule("category", c1, c2))

\* Invst definition: date, type, symbol, security in columns A to D, a
\* translation of security
SecurityTransDoc(c1, c2) == InvstBase @@ ("Translations" :> TransRule("security", c1, c2))

TransCells == {<<>>, <<"A">>, <<"B">>, <<"Z">>}
InvstTransRows == {<<ADate, c>> : c \in TransCells}
SecurityTransRows ==
    {<<ADate, <<"S", "t", "o", "c", "k">>, <<"X">>, c>> : c \in TransCells}
        \cup {<<ADate, <<"B", "o", "n", "d">>, <<"Z">>, <<"A">>>>}

\* a Bank file read through BankBase (date, amountT, payee in columns A to
\* C): each cell empty or filled, rows cut short after the amount and after
\* the date, and a blank line
BankExtractRows ==
    {<<d, b, c>> : d \in {<<>>, ADate}, b \in {<<>>, <<"6">>}, c \in {<<>>, <<"a">>}}
        \cup {<<ADate, <<"6">>>>, <<ADate>>, <<>>}

\* Invst definition: memo, date, quantity, cleared, commission in columns A
\* to E
InvstExtractDoc ==
    ("CsvTimeFormat" :> FmtMDY4) @@ ("accountType" :> InvstStr)
        @@ ("memo" :> Str(<<"A">>)) @@ ("date" :> Str(<<"B">>))
        @@ ("quantity" :> Str(<<"C">>)) @@ ("cleared" :> Str(<<"D">>))
        @@ ("commission" :> Str(<<"E">>))

\* the cells of the quantity column: empty, 5, 0, -2 and 1.5
QuantityCells == {<<>>, <<"5">>, <<"0">>, <<"-", "2">>, <<"1", ".", "5">>}

\* the rows of that file, and a row cut short after the date
InvstExtractRows ==
    {<<m, ADate, q, cl, co>> :
        m \in {<<>>, <<"m">>}, q \in QuantityCells, cl \in {<<>>, <<"X">>},
        co \in {<<>>, <<"6">>, <<"a", "b">>}}
        \cup {<<<<"m">>, ADate>>}

\* Invst definitions that bind type, symbol, security and goal to columns A
\* to D, with type, security or goal in column A
SecurityColumnDocs ==
    {("accountType" :> InvstStr) @@ ("type" :> Str(<<"A">>))
        @@ ("symbol" :> Str(<<"B">>)) @@ ("security" :> Str(<<"C">>))
        @@ ("goal" :> Str(<<"D">>)),
     ("accountType" :> InvstStr) @@ ("security" :> Str(<<"A">>))
        @@ ("type" :> Str(<<"B">>)) @@ ("symbol" :> Str(<<"C">>))
        @@ ("goal" :> Str(<<"D">>)),
     ("accountType" :> InvstStr) @@ ("goal" :> Str(<<"A">>))
        @@ ("type" :> Str(<<"B">>)) @@ ("symbol" :> Str(<<"C">>))
        @@ ("security" :> Str(<<"D">>))}

\* the rows of those files: each cell empty, 'Stock' or 'X'
SecurityColumnCells == {<<>>, <<"S", "t", "o", "c", "k">>, <<"X">>}
SecurityColumnRows ==
    {<<a, b, c, d>> : a \in SecurityColumnCells, b \in SecurityColumnCells,
                      c \in SecurityColumnCells, d \in SecurityColumnCells}

\* a condition on a field that no record has
UnknownCond == <<"eq", "nofield", Str(<<"A">>)>>

\* Bank definition BankBase with "InvertRules": {"amountT": cond}
BankInvertDoc(cond) == BankBase @@ ("InvertRules" :> OneRule("amountT", cond))
InvertConds == {<<"true">>, <<"lt", "amountT", PInt(0)>>, UnknownCond}
InvertRows == {<<ADate, b, <<"a">>>> : b \in {<<>>, <<"6">>, <<"-", "3">>}}

\* a categorical map: 'b' and 's' have replacements, 'p' asks the operator
SellStr == Str(<<"S", "e", "l", "l">>)
CategoricalMap ==
    <<"map", (<<"b">> :> SellStr) @@ (<<"s">> :> StockStr) @@ (<<"p">> :> PromptStr)>>

\* Invst definition: date, action, memo in columns A to C, and the map as
\* "ActionMap"
ActionMapDoc ==
    ("CsvTimeFormat" :> FmtMDY4) @@ ("accountType" :> InvstStr)
        @@ ("date" :> Str(<<"A">>)) @@ ("action" :> Str(<<"B">>))
        @@ ("memo" :> Str(<<"C">>)) @@ ("ActionMap" :> CategoricalMap)

\* Invst definition InvstBase with the map as "SecurityTypeMap"
SecurityTypeMapDoc == InvstBase @@ ("SecurityTypeMap" :> CategoricalMap)

\* the cells of the mapped column: empty, the keys of the map, and texts
\* that are no key
CategoricalCells == {<<>>, <<"b">>, <<"s">>, <<"p">>, <<"z">>, <<"S", "t", "o", "c", "k">>}
ActionRows == {<<ADate, c, <<"m">>>> : c \in CategoricalCells}
SecurityTypeRows == {<<ADate, c, <<"X">>, <<"X", "s">>>> : c \in CategoricalCells}

InitRecord ==
    /\ \/ /\ kind = "Bank"
          /\ \/ /\ \E op \in Operators : colmap = ColumnMap(BankCalcDoc(op))
                /\ row \in CalcRows
             \/ /\ colmap = ColumnMap(BankBase)
                /\ row \in BankExtractRows
             \/ /\ \E cond \in InvertConds : colmap = ColumnMap(BankInvertDoc(cond))
                /\ row \in InvertRows
       \/ /\ kind = "Invst"
          /\ \/ /\ \E op \in Operators : colmap = ColumnMap(InvstCalcDoc(op))
                /\ row \in CalcRows
             \/ /\ \E c1, c2 \in TransConds("category") \cup {UnknownCond} :
                      colmap = ColumnMap(InvstTransDoc(c1, c2))
                /\ row \in InvstTransRows
             \/ /\ colmap = ColumnMap(InvstExtractDoc)
                /\ row \in InvstExtractRows
             \/ /\ colmap = ColumnMap(ActionMapDoc)
                /\ row \in ActionRows
       \/ /\ kind = "Security"
          /\ \/ /\ \E c1, c2 \in TransConds("security") \cup {UnknownCond} :
                      colmap = ColumnMap(SecurityTransDoc(c1, c2))
                /\ row \in SecurityTransRows
             \/ /\ \E doc \in SecurityColumnDocs : colmap = ColumnMap(doc)
                /\ row \in SecurityColumnRows
             \/ /\ colmap = ColumnMap(SecurityTypeMapDoc)
                /\ row \in SecurityTypeRows
    /\ reply \in Replies
    /\ rec = NoRec /\ lines = <<>> /\ phase = "new"
    /\ ReadIdle /\ hist = <<>> /\ MapIdle

\* rec = BankRecord(row, colmap)
ConstructBank ==
    /\ phase = "new" /\ kind = "Bank"
    /\ rec' = BankRecord(row, colmap)
    /\ phase' = "built"
    /\ UNCHANGED <<kind, row, reply, lines>>

\* rec = InvstRecord(row, colmap)
ConstructInvst ==
    /\ phase = "new" /\ kind = "Invst"
    /\ rec' = InvstRecord(row, colmap, reply)
    /\ phase' = "built"
    /\ UNCHANGED <<kind, row, reply, lines>>

\* rec = SecurityRecord(row, colmap)
ConstructSecurity ==
    /\ phase = "new" /\ kind = "Security"
    /\ rec' = SecurityRecord(row, colmap)
    /\ phase' = "built"
    /\ UNCHANGED <<kind, row, reply, lines>>

(* ------------------- get_formatted_string on any record ---------------- *)
\* the value given to the i-th field of a record when it is present: a text
\* for the even fields, a float for the odd ones
FmtValue(i) == IF i % 2 = 0 THEN Str(<<"v", DigitChar(i % 10)>>) ELSE Num(i, 2)

\* the record whose present fields are those of positions P of fields
FmtRecord(fields, P) ==
    [a \in Range(fields) |->
        LET i == IndexIn(a, fields) IN IF i \in P THEN FmtValue(i) ELSE None]

InitFmt ==
    /\ \/ kind = "Bank"
          /\ \E P \in SUBSET (1..Len(BankFields)) : rec = FmtRecord(BankFields, P)
       \/ kind = "Invst"
          /\ \E P \in SUBSET (1..Len(InvstFields)) : rec = FmtRecord(InvstFields, P)
    /\ row = <<>> /\ reply = <<>> /\ lines = <<>> /\ phase = "built"
    /\ ReadIdle /\ colmap = NoRec /\ hist = <<>> /\ MapIdle

\* BankRecord.get_formatted_string
FormatBank ==
    /\ phase = "built" /\ kind = "Bank" /\ ~Raised(rec)
    /\ lines' = get_formatted_string(rec, BankFields, BankIds)
    /\ phase' = "formatted"
    /\ UNCHANGED <<kind, row, reply, rec>>

\* InvstRecord.get_formatted_string
FormatInvst ==
    /\ phase = "built" /\ kind = "Invst" /\ ~Raised(rec)
    /\ lines' = get_formatted_string(rec, InvstFields, InvstIds)
    /\ phase' = "formatted"
    /\ UNCHANGED <<kind, row, reply, rec>>

NextFmt ==
    \/ FormatBank /\ UNCHANGED <<readVars, hist, mapVars>>
    \/ FormatInvst /\ UNCHANGED <<readVars, hist, mapVars>>

SpecFmt == InitFmt /\ [][NextFmt]_vars

\* the fields and tags of the record kind under construction
KindFields == IF kind = "Invst" THEN InvstFields ELSE BankFields
KindIds == IF kind = "Invst" THEN InvstIds ELSE BankIds

\* the positions of the fields of rec that have a value
Present == {i \in 1..Len(KindFields) : rec[KindFields[i]] # None}

\* C1: a formatted Bank or Invst record has exactly one line <<tag, value>>
\* for each present field and none for an absent one, the lines stand in the
\* order of the kind's fixed field list, and one line "^" ends the record;
\* with every field absent the record is the single line "^".
FormatLaw ==
    phase = "formatted" =>
        LET n == Len(lines) IN
        /\ n = Cardinality(Present) + 1
        /\ lines[n] = <<"^">>
        /\ \A j \in 1..(n - 1) : lines[j] # <<"^">>
        /\ \A i \in Present :
              Cardinality({j \in 1..(n - 1) :
                              lines[j] = <<KindIds[i], rec[KindFields[i]]>>}) = 1
        /\ \A i \in 1..Len(KindFields) \ Present :
              \A j \in 1..(n - 1) : lines[j][1] # KindIds[i]
        /\ \A j, k \in 1..(n - 1) :
              j < k => IndexIn(lines[j][1], KindIds) < IndexIn(lines[k][1], KindIds)
        /\ Present = {} => lines = <<<<"^">>>>

\* C1 witness: a formatted record with some fields present and some absent,
\* among them a present field that follows an absent one
FormatSeen ==
    /\ phase = "formatted"
    /\ Cardinality(Present) >= 2
    /\ \E i \in Present : i > 1 /\ (i - 1) \notin Present
    /\ Len(lines) = Cardinality(Present) + 1

(* ---------------- one record from one row: specification --------------- *)
\* SecurityRecord.get_formatted_string, called for a record with a type
FormatSecurity ==
    /\ phase = "built" /\ kind = "Security" /\ ~Raised(rec)
    /\ GetAttr(rec, "type") # None
    /\ lines' = SecurityFormatted(rec)
    /\ phase' = "formatted"
    /\ UNCHANGED <<kind, row, reply, rec>>

idleVars == <<csv, pos, pc, acct_rec, latestDate, sec_list, sec_rec, sec_len,
              transact_rec, transact_len, outf, diag, hist, mapVars>>

NextRecord ==
    \/ ConstructBank /\ UNCHANGED <<colmap, idleVars>>
    \/ ConstructInvst /\ UNCHANGED <<colmap, idleVars>>
    \/ ConstructSecurity /\ UNCHANGED <<colmap, idleVars>>
    \/ FormatBank /\ UNCHANGED <<colmap, idleVars>>
    \/ FormatInvst /\ UNCHANGED <<colmap, idleVars>>
    \/ FormatSecurity /\ UNCHANGED <<colmap, idleVars>>

SpecRecord == InitRecord /\ [][NextRecord]_vars

\* the record is built and no expression of its constructor raised
Built == phase \in {"built", "formatted"} /\ ~Raised(rec)

\* the record as it is when the constructor reaches its rules
Extracted ==
    CASE kind = "Bank" -> BankExtract(row, colmap)
      [] kind = "Invst" -> InvstExtract(row, colmap, reply)
      [] OTHER -> SecurityExtract(row, colmap)

\* C3: for a rule result = A op B on numbers, in a Bank or an Invst
\* record: with A present and B absent the result is A, with A absent and
\* B present it is B, with both absent the result field is left as it was,
\* with both present it is A op B; whatever the result field held before.
CalcLaw ==
    Built /\ kind \in {"Bank", "Invst"} =>
        \A i \in 1..Len(Rules(colmap, "CalculationRules")) :
            LET attr == Rules(colmap, "CalculationRules")[i][1]
                rule == Rules(colmap, "CalculationRules")[i][2]
                A == Extracted[rule[1]]
                B == Extracted[rule[3]]
            IN /\ (A # None /\ B = None) => rec[attr] = A
               /\ (A = None /\ B # None) => rec[attr] = B
               /\ (A = None /\ B = None) => rec[attr] = Extracted[attr]
               /\ (A # None /\ B # None) => rec[attr] = Arith(A, rule[2], B)

\* C10: of the pairs (condition, replacement) of a translated field, only
\* the first pair whose condition holds is applied: the field ends with
\* the replacement of that pair, and is left alone when no condition holds.
FirstMatchLaw ==
    Built /\ kind \in {"Invst", "Security"} =>
        \A i \in 1..Len(Rules(colmap, "Translations")) :
            LET attr == Rules(colmap, "Translations")[i][1]
                list == Rules(colmap, "Translations")[i][2]
                before == IF kind = "Invst" THEN InvstCalculated(row, colmap, reply)
                          ELSE Extracted
            IN attr \in DOMAIN before =>
                 rec[attr] = IF EvalCond(before, list[1]) = "true" THEN list[2]
                             ELSE IF EvalCond(before, list[3]) = "true" THEN list[4]
                             ELSE before[attr]

\* the definition has no calculation, translation or inversion rule: the
\* record built is the record as its constructor extracted it
NoRules ==
    /\ Rules(colmap, "CalculationRules") = <<>>
    /\ Rules(colmap, "Translations") = <<>>
    /\ Rules(colmap, "InvertRules") = <<>>

\* the fields of a Bank or Invst record that are read from a bound column
ColumnFields ==
    IF kind = "Bank" THEN DOMAIN BankConv \cup {"date"}
    ELSE DOMAIN InvstConv \cup {"date", "action", "quantity", "cleared", "commission"}

\* the field has no binding, or its index lies outside the row, or its
\* cell is the empty string
Unfilled(a) ==
    \/ GetAttr(colmap, a) = None
    \/ IsInt(colmap[a]) /\ colmap[a][2] >= Len(row)
    \/ IsInt(colmap[a]) /\ colmap[a][2] < Len(row) /\ row[colmap[a][2] + 1] = <<>>

\* C11: in a Bank or Invst record, a field whose binding is absent, whose
\* index lies outside the row or whose cell is the empty string is absent
\* from the record, and reading it raises no error.
AbsentLaw ==
    phase \in {"built", "formatted"} /\ kind \in {"Bank", "Invst"} /\ NoRules =>
        \A a \in ColumnFields : Unfilled(a) => rec[a] = None

\* the field has a binding whose index lies in the row, and the cell
InRow(a) ==
    GetAttr(colmap, a) # None /\ IsInt(colmap[a]) /\ colmap[a][2] < Len(row)
CellOf(a) == row[colmap[a][2] + 1]

\* the fields of a record that take the coerced value of their cell
CoercedFields ==
    CASE kind = "Bank" -> DOMAIN BankConv
      [] kind = "Invst" -> DOMAIN InvstConv \cup {"cleared", "commission"}
      [] OTHER -> Range(SecurityFields)

\* the coerced value of the cell of field a: the text, or the number read
\* from it after trimming the currency characters
Coerced(a) ==
    CASE kind = "Bank" -> Convert(BankConv[a], CellOf(a), colmap)
      [] kind = "Invst" /\ a = "cleared" -> Str(CellOf(a))
      [] kind = "Invst" /\ a = "commission" -> AtofStrip(CellOf(a), colmap)
      [] kind = "Invst" -> Convert(InvstConv[a], CellOf(a), colmap)
      [] OTHER -> Str(CellOf(a))

\* a Security row that is to be filled out: no type map, a type cell
\* 'Stock' or 'Option', and a symbol cell
SecurityRowFilled ==
    /\ GetAttr(colmap, "SecurityTypeMap") = None
    /\ InRow("type") /\ Str(CellOf("type")) \in {StockStr, OptionStr}
    /\ InRow("symbol") /\ CellOf("symbol") # <<>>

\* C12: in a record of any kind, a field other than quantity that has a
\* binding, in column A or elsewhere, and a non-empty well-formed cell is
\* present with the coerced value of the cell, and reading it raises no
\* error; for a Security record this is said of the rows that are to be
\* filled out.
FilledLaw ==
    phase \in {"built", "formatted"} /\ NoRules
        /\ (kind = "Security" => SecurityRowFilled) =>
        \A a \in CoercedFields :
            InRow(a) /\ CellOf(a) # <<>> /\ Coerced(a) # Raise
                => a \in DOMAIN rec /\ rec[a] = Coerced(a)

\* the attributes a record of the kind can have
KindAttrs ==
    IF kind = "Security" THEN Range(SecurityFields) \cup {"typeTest"}
    ELSE DOMAIN Extracted

\* the condition names no field, or a field the record has
KnownCond(c) == c[1] = "true" \/ c[2] \in KindAttrs
KnownItem(it) == KnownCond(it[2])

\* the pairs of a translation list whose condition is known
RECURSIVE KnownPairs(_)
KnownPairs(list) ==
    IF Len(list) < 2 THEN list
    ELSE (IF KnownCond(list[1]) THEN <<list[1], list[2]>> ELSE <<>>)
            \o KnownPairs(SubSeq(list, 3, Len(list)))

\* the column map without the inversion rules and the translation pairs
\* whose condition names a field the record does not have
KnownMap ==
    [k \in DOMAIN colmap |->
        IF k = "InvertRules" /\ colmap[k] # None
        THEN <<"rules", SelectSeq(colmap[k][2], KnownItem)>>
        ELSE IF k = "Translations" /\ colmap[k] # None
        THEN <<"rules", [i \in 1..Len(colmap[k][2]) |->
                            <<colmap[k][2][i][1], KnownPairs(colmap[k][2][i][2])>>]>>
        ELSE colmap[k]]

\* the record of the kind built from the row under the column map
KindRecord(map) ==
    CASE kind = "Bank" -> BankRecord(row, map)
      [] kind = "Invst" -> InvstRecord(row, map, reply)
      [] OTHER -> SecurityRecord(row, map)

\* C13: a condition of an inversion or translation rule that names a field
\* the record does not have counts as not met: the record is the one that
\* the definition without such rules gives, and no error is raised.
UnknownLaw ==
    phase \in {"built", "formatted"} /\ KnownMap # colmap
        /\ ~Raised(KindRecord(KnownMap)) =>
        rec = KindRecord(KnownMap)

\* C16: the quantity of an Invst record with a non-empty quantity cell is
\* present exactly when the text of the cell is an integer greater than
\* zero; a cell holding zero, a negative integer or a fractional number
\* leaves it absent, and reading it raises no error.
QuantityLaw ==
    phase \in {"built", "formatted"} /\ kind = "Invst" /\ NoRules
        /\ InRow("quantity") /\ CellOf("quantity") # <<>> =>
        LET n == IntOf(CellOf("quantity")) IN
        /\ rec["quantity"] # Raise
        /\ rec["quantity"] # None <=> (n # Raise /\ n[2] > 0)

\* what a categorical map makes of the text of a cell: the replacement of
\* a key, the operator's reply when that replacement is 'prompt', and the
\* text itself when it is no key
Remapped(valmap, text) ==
    IF text \in DOMAIN valmap[2]
    THEN IF valmap[2][text] = PromptStr THEN Str(reply) ELSE valmap[2][text]
    ELSE Str(text)

\* C17: under an action map the action of an Invst record, and under a
\* security-type map the type read for a Security record, is the
\* replacement the map has for the cell, the operator's reply when that
\* replacement is 'prompt', and the cell itself when it is no key of the
\* map; it is never 'prompt' taken from the map.
RemapLaw ==
    phase \in {"built", "formatted"} =>
        /\ (/\ kind = "Invst" /\ GetAttr(colmap, "ActionMap") # None
            /\ InRow("action") /\ CellOf("action") # <<>>)
           => /\ rec["action"] = Remapped(colmap["ActionMap"], CellOf("action"))
              /\ rec["action"] # PromptStr
        /\ (/\ kind = "Security" /\ GetAttr(colmap, "SecurityTypeMap") # None
            /\ InRow("type") /\ CellOf("type") # <<>>)
           => /\ rec["typeTest"] = Remapped(colmap["SecurityTypeMap"], CellOf("type"))
              /\ rec["typeTest"] # PromptStr

(* ------------------------ invert_field, repeated ----------------------- *)
\* the characters of the texts given to invert_field
SignChars == {"-", "+", "5"}

\* the values given to invert_field: texts of signs and digits, ints and
\* floats
InvertTexts == {Str(t) : t \in SeqsUpTo(SignChars, MaxStrLen)}
InvertNumbers == {PInt(n) : n \in -2..2} \cup {Num(n, 2) : n \in {-3, -1, 1, 3}}

InitInvert ==
    /\ \E v \in InvertTexts \cup InvertNumbers : hist = <<v>>
    /\ ReadIdle /\ colmap = NoRec /\ RecIdle /\ MapIdle

\* invert_field(self, "amountT") on a record whose amountT is the last
\* value of hist
Invert ==
    /\ Len(hist) <= MaxInverts
    /\ LET r == invert_field([amountT |-> hist[Len(hist)]], "amountT") IN
       /\ ~Raised(r)
       /\ hist' = Append(hist, r["amountT"])

NextInvert == Invert /\ UNCHANGED <<readVars, recVars, mapVars>>

SpecInvert == InitInvert /\ [][NextInvert]_vars

\* the text of a string value starts with c
StartsWith(v, c) == v[2] # <<>> /\ v[2][1] = c

\* a text that starts with "-" and goes on with no further sign
OneMinus(v) ==
    StartsWith(v, "-") /\ (Len(v[2]) >= 2 => v[2][2] \notin {"-", "+"})

\* C6 as the spec states it: inverting twice gives back a number and any
\* text that starts with "-"; inverting a text without a sign puts "-"
\* before it; a text stays a text.
InvolutionLaw ==
    \A k \in 1..Len(hist) :
        /\ (k + 2 <= Len(hist) /\ IsNumeric(hist[k])) => hist[k + 2] = hist[k]
        /\ (k + 2 <= Len(hist) /\ IsStr(hist[k]) /\ StartsWith(hist[k], "-"))
              => hist[k + 2] = hist[k]
        /\ (k + 1 <= Len(hist) /\ IsStr(hist[k])
               /\ ~StartsWith(hist[k], "-") /\ ~StartsWith(hist[k], "+"))
              => hist[k + 1] = Str(<<"-">> \o hist[k][2])
        /\ (k + 1 <= Len(hist) /\ IsStr(hist[k])) => IsStr(hist[k + 1])

\* C6 amended: inverting twice gives back a number, and a text that
\* starts with "-" when no other sign follows that "-"; inverting a text
\* without a sign puts "-" before it; a text stays a text.
InvertLaw ==
    \A k \in 1..Len(hist) :
        /\ (k + 2 <= Len(hist) /\ IsNumeric(hist[k])) => hist[k + 2] = hist[k]
        /\ (k + 2 <= Len(hist) /\ IsStr(hist[k]) /\ OneMinus(hist[k]))
              => hist[k + 2] = hist[k]
        /\ (k + 1 <= Len(hist) /\ IsStr(hist[k])
               /\ ~StartsWith(hist[k], "-") /\ ~StartsWith(hist[k], "+"))
              => hist[k + 1] = Str(<<"-">> \o hist[k][2])
        /\ (k + 1 <= Len(hist) /\ IsStr(hist[k])) => IsStr(hist[k + 1])

\* C6 witness: "-5" inverted to "5" and back to "-5"
InvertSeen ==
    /\ Len(hist) = 3
    /\ hist[1] = Str(<<"-", "5">>)
    /\ hist[2] = Str(<<"5">>)
    /\ hist[3] = hist[1]

(* ------------------------------ ColumnMap ------------------------------ *)
\* the values of the JSON document: every single letter, longer texts,
\* texts that are not letters, a number, null and a rule table
MapValues ==
    {Str(<<c>>) : c \in Range(UpperLetters) \cup Range(LowerLetters)}
        \cup {Str(<<"A", "b">>), Str(<<"%", "d">>), Str(<<"1">>), Str(<<",">>),
               Str(<<>>), PInt(3), None, OneRule("amountT", <<"Credit", "+", "Debit">>)}
MapKeys == {"date", "account", "StartLine"}

InitColumnMap ==
    /\ \E key \in MapKeys, val \in MapValues :
          csvdeff = ("CsvTimeFormat" :> FmtMDY4) @@ (key :> val)
    /\ stored = NoRec /\ colmap = NoRec
    /\ ReadIdle /\ RecIdle /\ hist = <<>>

\* ColumnMap(deff_)
BuildMap ==
    /\ stored = NoRec
    /\ stored' = DecodeAll(csvdeff)
    /\ colmap' = ColumnMap(csvdeff)
    /\ UNCHANGED csvdeff

NextColumnMap ==
    BuildMap /\ UNCHANGED <<csv, pos, pc, acct_rec, latestDate, sec_list, sec_rec,
                            sec_len, transact_rec, transact_len, outf, diag,
                            recVars, hist>>

SpecColumnMap == InitColumnMap /\ [][NextColumnMap]_vars

\* the place of a letter in its alphabet, counted from 0
Offset(c) ==
    IF c \in Range(UpperLetters) THEN IndexIn(c, UpperLetters) - 1
    ELSE IndexIn(c, LowerLetters) - 1

\* a text of one letter
OneLetter(v) ==
    IsStr(v) /\ Len(v[2]) = 1
        /\ v[2][1] \in Range(UpperLetters) \cup Range(LowerLetters)

\* C9: a value that is one letter is stored as the place of the letter in
\* its alphabet counted from 0 ('A' and 'a' as 0, 'Z' and 'z' as 25); any
\* other value is stored unchanged. A value that is not null is also the
\* attribute of the finished column map.
DecodeLaw ==
    stored # NoRec =>
        /\ DOMAIN stored = DOMAIN csvdeff
        /\ \A key \in DOMAIN csvdeff :
              /\ stored[key] = IF OneLetter(csvdeff[key])
                               THEN PInt(Offset(csvdeff[key][2][1]))
                               ELSE csvdeff[key]
              /\ csvdeff[key] # None => colmap[key] = stored[key]
        /\ \A v \in {stored[key] : key \in DOMAIN stored} :
              IsInt(v) /\ v \notin {csvdeff[key] : key \in DOMAIN csvdeff}
                  => v[2] \in 0..25

\* C9 witness: "z" stored as 25
DecodeSeen ==
    /\ stored # NoRec
    /\ \E key \in DOMAIN csvdeff :
          csvdeff[key] = Str(<<"z">>) /\ stored[key] = PInt(25)

====
